---- MODULE Spec2Model ----
(***************************************************************************)
(* Model of sonix-lite: the job lifecycle of src/main.py (submit, download, *)
(* background transcription, read endpoints, delete) over the file-backed  *)
(* storage directory, and the chunked pipeline of src/video_to_text.py.    *)
(***************************************************************************)
EXTENDS Integers, Sequences, FiniteSets, TLC

\* ------------------------------------------------------------------ bounds
MaxJobs == 1
MaxChunks == 2
MaxDuration == 9
MaxChunkMs == 4

\* video_to_text(video_path, chunk_duration_ms=30000)
DefaultChunkMs == 30000

\* the media ids of requests: those of the MaxJobs jobs a run submits, and
\* one more
Jobs == 1..(MaxJobs + 1)
\* the calls of video_to_text, which the thread pool (max_workers=4) can run
\* at the same time
Runs == {1, 2}

\* Optional values (Python None / a value) are sequences of length 0 or 1.
None == <<>>
Some(v) == <<v>>

\* request.name of MediaSubmissionRequest
Names == {None, Some("talk")}

\* what the remote answers to session.get: a status other than 200, a
\* transport error, or 200 with a URL suffix and a Content-Type
UrlSuffixes == {".mp4", ".wav", ""}
ContentTypes == {"video/webm", "audio/mpeg", ""}
\* the tests 'video/mp4' in content_type, 'video/' in ..., 'audio/' in ...
HasVideoMp4(ctype) == ctype \in {"video/mp4"}
HasVideo(ctype) == ctype \in {"video/mp4", "video/webm"}
HasAudio(ctype) == ctype \in {"audio/mpeg", "audio/wav"}
DownloadErrors == {"Failed to download: HTTP 404", "ClientConnectorError"}

\* texts video_to_text can return, and what it can raise
Transcripts == {"hello world"}
PipelineErrors == {"pipeline error"}

VARIABLES
    nextId,         \* uuid.uuid4(): the ids handed out so far are 1..nextId-1
    dirExists,      \* dirExists[j]: storage/<j> exists
    statusFile,     \* statusFile[j]: content of storage/<j>/status.json, or None
    mediaFiles,     \* mediaFiles[j]: extensions e with storage/<j>/input_media<e> present
    transcriptFile, \* transcriptFile[j]: content of storage/<j>/transcript.txt, or None
    sub,            \* sub[j]: the submit_media call that created job j
    task,           \* task[j]: the process_transcription background task of job j
    req,            \* the transcript request that is between its checks and its file read
    last,           \* the response of the last finished read or delete request
    deleted,        \* deleted[j]: a delete_media(j) has succeeded (history)
    vtt,            \* vtt[r]: the r-th running call of video_to_text
    chunksDir,      \* assets/chunks exists
    chunkFiles,     \* chunkFiles[i]: what assets/chunks/chunk_<i>.wav holds, for the files there
    audioFile       \* audioFile[r]: the audio file extracted for call r, or None

vars == <<nextId, dirExists, statusFile, mediaFiles, transcriptFile,
          sub, task, req, last, deleted, vtt, chunksDir, chunkFiles, audioFile>>

jobVars == <<nextId, dirExists, statusFile, mediaFiles, transcriptFile,
             sub, task, req, last, deleted>>

pipelineVars == <<vtt, chunksDir, chunkFiles, audioFile>>

storage == <<dirExists, statusFile, mediaFiles, transcriptFile>>

\* datetime.utcnow().isoformat() + "Z": every reading is a value of its own,
\* named by the job and the place that read it
utcnow(j, site) == <<j, site>>

\* ------------------------------------------------------- storage utilities
\* read_status: the record, or HTTPException 404 (None here) if status.json is missing
read_status(j) == statusFile[j]


\* faulty variant: write_status that creates the missing directory again
write_status_ok_mkdir(j) == TRUE

\* write_status: open(status_file, 'w') fails when the job directory is gone
write_status_ok(j) == dirExists[j]

\* ---------------------------------------------------------------- download
\* download_media, lines 113-122: the extension of the stored media file
ResolveExt(suffix, ctype) ==
    IF suffix \in {".mp4", ".mov", ".avi", ".mkv", ".wav", ".mp3"} THEN suffix
    ELSE IF HasVideoMp4(ctype) THEN ".mp4"
    ELSE IF HasVideo(ctype) THEN ".mp4"
    ELSE IF HasAudio(ctype) THEN ".wav"
    ELSE ".mp4"

NoSub == [pc |-> "none", status_data |-> None, ext |-> "", response |-> None]
NoTask == [pc |-> "none", media_path |-> "", transcript |-> None]
NoRun == [pc |-> "idle", total_duration_ms |-> 0, chunk_duration_ms |-> 0,
          chunks |-> <<>>, chunk_texts |-> <<>>, listing |-> {}, result |-> None]
NoReq == [pc |-> "idle", op |-> "", id |-> 0, status_data |-> None,
          after_delete |-> FALSE, had_transcript |-> FALSE]

\* before the first call of video_to_text: no call running, no scratch files
InitPipeline ==
    /\ vtt = [r \in Runs |-> NoRun]
    /\ chunksDir = FALSE
    /\ chunkFiles = <<>>
    /\ audioFile = [r \in Runs |-> None]

Init ==
    /\ nextId = 1
    /\ dirExists = [j \in Jobs |-> FALSE]
    /\ statusFile = [j \in Jobs |-> None]
    /\ mediaFiles = [j \in Jobs |-> {}]
    /\ transcriptFile = [j \in Jobs |-> None]
    /\ sub = [j \in Jobs |-> NoSub]
    /\ task = [j \in Jobs |-> NoTask]
    /\ req = NoReq
    /\ last = None
    /\ deleted = [j \in Jobs |-> FALSE]
    /\ InitPipeline

\* ------------------------------------------------------------ submit_media
\* lines 198-215 and the start of the download: a fresh id, the directory,
\* the initial record; the handler then waits in download_media.
submit_media(name) ==
    /\ nextId \in Jobs
    /\ LET j == nextId
           status_data == [id |-> j, status |-> "processing", name |-> name,
                           created_at |-> utcnow(j, "submit_media"), completed_at |-> None,
                           error |-> None]
       IN /\ dirExists' = [dirExists EXCEPT ![j] = TRUE]
          /\ statusFile' = [statusFile EXCEPT ![j] = Some(status_data)]
          /\ sub' = [sub EXCEPT ![j] = [pc |-> "download",
                                        status_data |-> Some(status_data),
                                        ext |-> "", response |-> None]]
    /\ nextId' = nextId + 1
    /\ UNCHANGED <<mediaFiles, transcriptFile, task, req, last, deleted, pipelineVars>>


\* faulty variant: the except branch answers 400 and leaves the record as it was
submit_media_except_no_write(j, e) ==
    /\ statusFile' = statusFile
    /\ sub' = [sub EXCEPT ![j] =
                 [pc |-> "returned",
                  status_data |-> Some([sub[j].status_data[1] EXCEPT
                                          !.error = Some(<<"Download failed: ", e>>)]),
                  ext |-> "",
                  response |-> Some([code |-> 400,
                                     body |-> <<"Failed to download media: ", e>>])]]

\* lines 229-239: the except branch of submit_media for the exception e.
\* It rewrites the record from the handler's own status_data; when the job
\* directory is gone write_status raises and the request ends as an
\* unhandled error (500).
submit_media_except(j, e) ==
    LET old == sub[j].status_data[1]
        status_data == [old EXCEPT !.status = "failed",
                                   !.error = Some(<<"Download failed: ", e>>),
                                   !.completed_at = Some(utcnow(j, "submit_media_except"))]
    IN IF write_status_ok(j)
          THEN /\ statusFile' = [statusFile EXCEPT ![j] = Some(status_data)]
               /\ sub' = [sub EXCEPT ![j] =
                            [pc |-> "returned", status_data |-> Some(status_data),
                             ext |-> "", response |-> Some([code |-> 400,
                                 body |-> <<"Failed to download media: ", e>>])]]
          ELSE /\ statusFile' = statusFile
               /\ sub' = [sub EXCEPT ![j] =
                            [pc |-> "returned", status_data |-> Some(status_data),
                             ext |-> "", response |-> Some([code |-> 500,
                                 body |-> <<"Internal Server Error", "FileNotFoundError">>])]]


\* faulty variant: the background task is added before the download is known to work
download_media_raise_scheduling(j, e) ==
    /\ sub[j].pc = "download"
    /\ submit_media_except(j, e)
    /\ task' = [task EXCEPT ![j].pc = "scheduled"]
    /\ UNCHANGED <<nextId, dirExists, mediaFiles, transcriptFile,
                   req, last, deleted, pipelineVars>>

\* download_media, lines 104-107: a response other than 200, or a transport error
download_media_raise(j, e) ==
    /\ sub[j].pc = "download"
    /\ submit_media_except(j, e)
    /\ UNCHANGED <<nextId, dirExists, mediaFiles, transcriptFile,
                   task, req, last, deleted, pipelineVars>>

\* faulty variant: the background task is added as soon as the download has
\* begun to arrive
download_media_open_scheduling(j, suffix, ctype) ==
    /\ sub[j].pc = "download"
    /\ dirExists[j]
    /\ mediaFiles' = [mediaFiles EXCEPT ![j] = @ \cup {ResolveExt(suffix, ctype)}]
    /\ sub' = [sub EXCEPT ![j].pc = "writing", ![j].ext = ResolveExt(suffix, ctype)]
    /\ task' = [task EXCEPT ![j].pc = "scheduled", ![j].media_path = ResolveExt(suffix, ctype)]
    /\ UNCHANGED <<nextId, dirExists, statusFile, transcriptFile, req, last, deleted,
                   pipelineVars>>

\* download_media, lines 108-127: status 200; the extension is resolved and the
\* destination file is opened for writing, which fails if the directory is gone
download_media_open(j, suffix, ctype) ==
    /\ sub[j].pc = "download"
    /\ IF dirExists[j]
       THEN /\ mediaFiles' = [mediaFiles EXCEPT ![j] = @ \cup {ResolveExt(suffix, ctype)}]
            /\ sub' = [sub EXCEPT ![j].pc = "writing",
                                  ![j].ext = ResolveExt(suffix, ctype)]
            /\ UNCHANGED statusFile
       ELSE /\ submit_media_except(j, "FileNotFoundError")
            /\ UNCHANGED mediaFiles
    /\ UNCHANGED <<nextId, dirExists, transcriptFile, task, req, last, deleted, pipelineVars>>

\* download_media, lines 128-131, and submit_media, lines 225-227: the body is
\* written, the background task is added and the record made at creation is returned
download_media_return(j) ==
    /\ sub[j].pc = "writing"
    /\ sub' = [sub EXCEPT ![j].pc = "returned",
                          ![j].response = Some([code |-> 200,
                                                body |-> sub[j].status_data])]
    /\ task' = [task EXCEPT ![j].pc = "scheduled", ![j].media_path = sub[j].ext]
    /\ UNCHANGED <<nextId, storage, req, last, deleted, pipelineVars>>

\* --------------------------------------------------- process_transcription
\* lines 165-172: the except branch of process_transcription for the exception
\* e. read_status raises again when the record is gone, and the task dies.
process_transcription_except(j, e) ==
    LET r == read_status(j)
    IN IF r = None
       THEN /\ task' = [task EXCEPT ![j].pc = "crashed"]
            /\ UNCHANGED statusFile
       ELSE /\ statusFile' = [statusFile EXCEPT ![j] =
                 Some([r[1] EXCEPT !.status = "failed",
                                   !.error = Some(<<e, "\n", "Traceback">>),
                                   !.completed_at =
                                       Some(utcnow(j, "process_transcription_except"))])]
                    /\ task' = [task EXCEPT ![j].pc = "failed"]

\* faulty variant: the task writes a new record instead of updating the stored one
process_transcription_new_record(j) ==
    /\ task[j].pc = "scheduled"
    /\ LET r == read_status(j)
       IN IF r = None
          THEN process_transcription_except(j, "404: Media ID not found")
          ELSE /\ statusFile' = [statusFile EXCEPT ![j] =
                                   Some([id |-> j, status |-> "processing", name |-> None,
                                         created_at |-> utcnow(j, "process_transcription"),
                                         completed_at |-> None, error |-> None])]
               /\ task' = [task EXCEPT ![j].pc = "video_to_audio"]
    /\ UNCHANGED <<nextId, dirExists, mediaFiles, transcriptFile,
                   sub, req, last, deleted, pipelineVars>>

\* lines 141-152: the task starts, writes status processing and hands
\* video_to_text to the thread pool
process_transcription(j) ==
    /\ task[j].pc = "scheduled"
    /\ LET r == read_status(j)
       IN IF r = None
          THEN process_transcription_except(j, "404: Media ID not found")
          ELSE /\ statusFile' = [statusFile EXCEPT ![j] =
                                   Some([r[1] EXCEPT !.status = "processing"])]
               /\ task' = [task EXCEPT ![j].pc = "video_to_audio"]
    /\ UNCHANGED <<nextId, dirExists, mediaFiles, transcriptFile,
                   sub, req, last, deleted, pipelineVars>>

\* video_to_text, lines 56-57: audio_path is the media path with its last four
\* characters replaced by ".wav"; video_to_audio reads the media file and
\* writes the audio file next to it
audio_path(media_path) == ".wav"

video_to_text_audio(j) ==
    /\ task[j].pc = "video_to_audio"
    /\ task[j].media_path \in mediaFiles[j]
    /\ mediaFiles' = [mediaFiles EXCEPT ![j] = @ \cup {audio_path(task[j].media_path)}]
    /\ task' = [task EXCEPT ![j].pc = "recognize"]
    /\ UNCHANGED <<nextId, dirExists, statusFile, transcriptFile, sub, req,
                   last, deleted, pipelineVars>>

\* video_to_text, lines 59-73: the chunks are split and recognized, the scratch
\* files removed (os.remove(audio_path) needs the file to be there) and the
\* text returned to process_transcription
video_to_text_return(j, text) ==
    /\ task[j].pc = "recognize"
    /\ audio_path(task[j].media_path) \in mediaFiles[j]
    /\ mediaFiles' = [mediaFiles EXCEPT ![j] = @ \ {audio_path(task[j].media_path)}]
    /\ task' = [task EXCEPT ![j].pc = "save_open", ![j].transcript = Some(text)]
    /\ UNCHANGED <<nextId, dirExists, statusFile, transcriptFile, sub, req,
                   last, deleted, pipelineVars>>


\* faulty variant: no except branch: an exception of the pipeline ends the task
video_to_text_raise_unhandled(j, e) ==
    /\ task[j].pc \in {"video_to_audio", "recognize"}
    /\ task' = [task EXCEPT ![j].pc = "crashed"]
    /\ UNCHANGED <<nextId, storage, sub, req, last, deleted, pipelineVars>>

\* video_to_text raises (a missing file, a failing library call) and
\* process_transcription handles it
video_to_text_raise(j, e) ==
    /\ task[j].pc \in {"video_to_audio", "recognize"}
    /\ process_transcription_except(j, e)
    /\ UNCHANGED <<nextId, dirExists, mediaFiles, transcriptFile,
                   sub, req, last, deleted, pipelineVars>>

\* faulty variant: the text is kept in memory only, no transcript.txt is created
process_transcription_open_no_file(j) ==
    /\ task[j].pc = "save_open"
    /\ task' = [task EXCEPT ![j].pc = "save_write"]
    /\ UNCHANGED <<nextId, storage, sub, req, last, deleted, pipelineVars>>

\* lines 155-156: aiofiles.open(transcript_file, 'w') creates the empty file,
\* or raises when the job directory is gone
process_transcription_open(j) ==
    /\ task[j].pc = "save_open"
    /\ IF dirExists[j]
       THEN /\ transcriptFile' = [transcriptFile EXCEPT ![j] = Some("")]
            /\ task' = [task EXCEPT ![j].pc = "save_write"]
            /\ UNCHANGED statusFile
       ELSE /\ process_transcription_except(j, "FileNotFoundError")
            /\ UNCHANGED transcriptFile
    /\ UNCHANGED <<nextId, dirExists, mediaFiles, sub, req, last, deleted, pipelineVars>>


\* faulty variant: the write of the text raises after the file was created
process_transcription_write_raising(j) ==
    /\ task[j].pc = "save_write"
    /\ process_transcription_except(j, "TypeError")
    /\ UNCHANGED <<nextId, dirExists, mediaFiles, transcriptFile,
                   sub, req, last, deleted, pipelineVars>>

\* line 157: the text is written (to an unlinked file if the job was deleted
\* since the open)
process_transcription_write(j) ==
    /\ task[j].pc = "save_write"
    /\ transcriptFile' = [transcriptFile EXCEPT ![j] =
                            IF @ = None THEN None ELSE task[j].transcript]
    /\ task' = [task EXCEPT ![j].pc = "mark"]
    /\ UNCHANGED <<nextId, dirExists, statusFile, mediaFiles, sub, req,
                   last, deleted, pipelineVars>>


\* faulty variant: completed is written without completed_at
process_transcription_completed_no_timestamp(j) ==
    /\ task[j].pc = "mark"
    /\ LET r == read_status(j)
       IN IF r = None
          THEN process_transcription_except(j, "404: Media ID not found")
          ELSE /\ statusFile' = [statusFile EXCEPT ![j] =
                     Some([r[1] EXCEPT !.status = "completed"])]
               /\ task' = [task EXCEPT ![j].pc = "done"]
    /\ UNCHANGED <<nextId, dirExists, mediaFiles, transcriptFile,
                   sub, req, last, deleted, pipelineVars>>

\* lines 160-163: the record is read again and written back as completed
process_transcription_completed(j) ==
    /\ task[j].pc = "mark"
    /\ LET r == read_status(j)
       IN IF r = None
          THEN process_transcription_except(j, "404: Media ID not found")
          ELSE /\ statusFile' = [statusFile EXCEPT ![j] =
                     Some([r[1] EXCEPT !.status = "completed",
                                       !.completed_at =
                                           Some(utcnow(j, "process_transcription"))])]
                          /\ task' = [task EXCEPT ![j].pc = "done"]
    /\ UNCHANGED <<nextId, dirExists, mediaFiles, transcriptFile,
                   sub, req, last, deleted, pipelineVars>>

\* ---------------------------------------------------------- read endpoints
\* A response: the HTTP status code and the body (the detail of an
\* HTTPException, or the payload). code 0 stands for "no response yet".
Resp(code, body) == [code |-> code, body |-> body]
Proceed == Resp(0, <<>>)
Unhandled == Resp(500, <<"Internal Server Error">>)
NotFound(j) == Resp(404, <<"Media ID not found", j>>)

\* what a finished request leaves in last
Done(op, j, read, resp) ==
    Some([op |-> op, id |-> j, read |-> read, code |-> resp.code, body |-> resp.body,
          after_delete |-> deleted[j], had_transcript |-> transcriptFile[j] # None])

\* the status a handler has read, "absent" when read_status raised 404
StatusRead(r) == IF r = None THEN "absent" ELSE r[1].status

\* lines 242-251
get_media_status(j) ==
    /\ LET r == read_status(j)
       IN last' = Done("status", j, StatusRead(r),
                       IF r = None THEN NotFound(j) ELSE Resp(200, r))
    /\ UNCHANGED <<nextId, storage, sub, task, req, deleted, pipelineVars>>


\* faulty variant: the transcript file is looked for before the status is
get_transcript_text_checks_file_first(j) ==
    LET status_data == read_status(j)
    IN IF status_data = None THEN NotFound(j)
       ELSE IF transcriptFile[j] # None THEN Proceed
       ELSE IF status_data[1].status = "processing"
            THEN Resp(409, <<"Transcription still in progress">>)
       ELSE IF status_data[1].status = "failed"
            THEN Resp(500, <<"Transcription failed: ", status_data[1].error>>)
       ELSE Resp(404, <<"Transcript file not found">>)

\* get_transcript_text, lines 262-281: the checks made before the file is opened
get_transcript_text_checks(j) ==
    LET status_data == read_status(j)
    IN IF status_data = None THEN NotFound(j)
       ELSE IF status_data[1].status = "processing"
            THEN Resp(409, <<"Transcription still in progress">>)
       ELSE IF status_data[1].status = "failed"
            THEN Resp(500, <<"Transcription failed: ", status_data[1].error>>)
       ELSE IF transcriptFile[j] = None
            THEN Resp(404, <<"Transcript file not found">>)
       ELSE Proceed

\* get_transcript_text, lines 283-286: the file is opened and read; a missing
\* file is an exception no handler catches
get_transcript_text_content(j) ==
    IF transcriptFile[j] = None THEN Unhandled
    ELSE Resp(200, <<transcriptFile[j][1]>>)


\* faulty variant: the JSON endpoint without the check that transcript.txt exists
get_transcript_json_checks_no_exists(j) ==
    LET status_data == read_status(j)
    IN IF status_data = None THEN NotFound(j)
       ELSE IF status_data[1].status = "processing"
            THEN Resp(409, <<"Transcription still in progress">>)
       ELSE IF status_data[1].status = "failed"
            THEN Resp(500, <<"Transcription failed: ", status_data[1].error>>)
       ELSE Proceed

\* get_transcript_json, lines 296-315
get_transcript_json_checks(j) ==
    LET status_data == read_status(j)
    IN IF status_data = None THEN NotFound(j)
       ELSE IF status_data[1].status = "processing"
            THEN Resp(409, <<"Transcription still in progress">>)
       ELSE IF status_data[1].status = "failed"
            THEN Resp(500, <<"Transcription failed: ", status_data[1].error>>)
       ELSE IF transcriptFile[j] = None
            THEN Resp(404, <<"Transcript file not found">>)
       ELSE Proceed

\* faulty variant: the payload is stamped with the time of the request
get_transcript_json_content_stamped(j, status_data) ==
    IF transcriptFile[j] = None THEN Unhandled
    ELSE Resp(200, <<[id |-> j, status |-> status_data[1].status,
                      transcript |-> transcriptFile[j][1],
                      created_at |-> status_data[1].created_at,
                      completed_at |-> Some(utcnow(j, "get_transcript_json"))]>>)

\* get_transcript_json, lines 317-326, for the record status_data read at line 296
get_transcript_json_content(j, status_data) ==
    IF transcriptFile[j] = None THEN Unhandled
    ELSE Resp(200, <<[id |-> j, status |-> status_data[1].status,
                      transcript |-> transcriptFile[j][1],
                      created_at |-> status_data[1].created_at,
                      completed_at |-> status_data[1].completed_at]>>)

\* a transcript handler up to its first suspension (aiofiles.open)
TranscriptStart(op, j, checks) ==
    /\ req.pc = "idle"
    /\ IF checks = Proceed
       THEN /\ req' = [pc |-> "open", op |-> op, id |-> j,
                       status_data |-> read_status(j), after_delete |-> deleted[j],
                       had_transcript |-> transcriptFile[j] # None]
            /\ last' = last
       ELSE /\ last' = Done(op, j, StatusRead(read_status(j)), checks)
            /\ req' = req
    /\ UNCHANGED <<nextId, storage, sub, task, deleted, pipelineVars>>

get_transcript_text(j) == TranscriptStart("text", j, get_transcript_text_checks(j))

get_transcript_json(j) == TranscriptStart("json", j, get_transcript_json_checks(j))

\* the handler resumes: the file is opened and read
TranscriptFinish(op, resp) ==
    /\ req.pc = "open"
    /\ req.op = op
    /\ last' = Some([op |-> op, id |-> req.id, read |-> StatusRead(req.status_data),
                     code |-> resp.code, body |-> resp.body,
                     after_delete |-> req.after_delete,
                     had_transcript |-> req.had_transcript])
    /\ req' = NoReq
    /\ UNCHANGED <<nextId, storage, sub, task, deleted, pipelineVars>>

get_transcript_text_read == TranscriptFinish("text", get_transcript_text_content(req.id))

get_transcript_json_read ==
    TranscriptFinish("json", get_transcript_json_content(req.id, req.status_data))

\* ------------------------------------------------------------ delete_media
\* faulty variant: the tree removed is the storage directory, not the job's
delete_media_storage_dir(j) ==
    /\ IF ~dirExists[j]
       THEN /\ last' = Done("delete", j, "", NotFound(j))
            /\ UNCHANGED <<storage, deleted>>
       ELSE /\ dirExists' = [b \in Jobs |-> FALSE]
            /\ statusFile' = [b \in Jobs |-> None]
            /\ mediaFiles' = [b \in Jobs |-> {}]
            /\ transcriptFile' = [b \in Jobs |-> None]
            /\ deleted' = [deleted EXCEPT ![j] = TRUE]
            /\ last' = Done("delete", j, "", Resp(200, <<"deleted successfully", j>>))
    /\ UNCHANGED <<nextId, sub, task, req, pipelineVars>>

\* lines 334-343: 404 if the directory is missing, else shutil.rmtree
delete_media(j) ==
    /\ IF ~dirExists[j]
       THEN /\ last' = Done("delete", j, "", NotFound(j))
            /\ UNCHANGED <<storage, deleted>>
       ELSE /\ dirExists' = [dirExists EXCEPT ![j] = FALSE]
            /\ statusFile' = [statusFile EXCEPT ![j] = None]
            /\ mediaFiles' = [mediaFiles EXCEPT ![j] = {}]
            /\ transcriptFile' = [transcriptFile EXCEPT ![j] = None]
            /\ deleted' = [deleted EXCEPT ![j] = TRUE]
            /\ last' = Done("delete", j, "", Resp(200, <<"deleted successfully", j>>))
    /\ UNCHANGED <<nextId, sub, task, req, pipelineVars>>

\* ------------------------------------------------------------ video_to_text
\* Texts are sequences of characters (a multi-character token stands for a
\* run of characters that are not whitespace).
Whitespace == {" ", "\n"}

\* what recognizer.recognize_google can do with a chunk: return a text, raise
\* UnknownValueError, raise RequestError, or raise an exception of another
\* class, which audio_to_text does not catch
RecognizedTexts == {<<" ", "b", " ">>}
RecognitionOutcomes ==
    {[kind |-> "text", text |-> t] : t \in RecognizedTexts}
    \cup {[kind |-> "UnknownValueError", text |-> <<>>],
          [kind |-> "RequestError", text |-> <<"e">>],
          [kind |-> "OtherError", text |-> <<>>]}
\* the outcomes taken when two calls run at the same time
ConcurrentOutcomes == {[kind |-> "text", text |-> t] : t \in RecognizedTexts}

\* durations of the extracted audio, in ms: none, and k chunks of which the
\* last one is 5 s long
AudioDurations == {0} \cup {k * DefaultChunkMs - 25000 : k \in 1..MaxChunks}
\* the durations taken when two calls run at the same time
ConcurrentDurations == AudioDurations \ {0}

Min(a, b) == IF a <= b THEN a ELSE b

RECURSIVE Join(_, _)
\* sep.join(texts)
Join(sep, texts) ==
    IF texts = <<>> THEN <<>>
    ELSE IF Len(texts) = 1 THEN texts[1]
    ELSE texts[1] \o sep \o Join(sep, Tail(texts))

RECURSIVE LStrip(_)
LStrip(t) == IF t # <<>> /\ Head(t) \in Whitespace THEN LStrip(Tail(t)) ELSE t

RECURSIVE RStrip(_)
RStrip(t) ==
    IF t # <<>> /\ t[Len(t)] \in Whitespace THEN RStrip(SubSeq(t, 1, Len(t) - 1)) ELSE t

\* str.strip()
Strip(t) == RStrip(LStrip(t))

\* faulty variant: the number of whole chunks only
NumChunksFloor(total_duration_ms, chunk_duration_ms) ==
    total_duration_ms \div chunk_duration_ms

\* split_audio_by_duration, line 22: math.ceil(total_duration_ms / chunk_duration_ms)
NumChunks(total_duration_ms, chunk_duration_ms) ==
    IF total_duration_ms % chunk_duration_ms = 0
    THEN total_duration_ms \div chunk_duration_ms
    ELSE total_duration_ms \div chunk_duration_ms + 1

\* line 29, audio[start:end] of pydub: a slice ends where the audio ends
Slice(total_duration_ms, start, end) ==
    [start |-> Min(start, total_duration_ms), end |-> Min(end, total_duration_ms)]

\* the exception leaves video_to_text at once: nothing is cleaned up
Raise(r) == vtt' = [vtt EXCEPT ![r].pc = "raised"]

\* video_to_text, lines 53-54: the call starts and looks whether assets/chunks
\* exists
video_to_text(r) ==
    /\ vtt[r].pc = "idle"
    /\ vtt' = [vtt EXCEPT ![r].pc = IF chunksDir THEN "video_to_audio" ELSE "mkdir",
                          ![r].chunk_duration_ms = DefaultChunkMs]
    /\ UNCHANGED <<chunksDir, chunkFiles, audioFile, jobVars>>

\* line 54: os.mkdir("assets/chunks"), which raises if another call has made
\* the directory since the test
video_to_text_mkdir(r) ==
    /\ vtt[r].pc = "mkdir"
    /\ IF chunksDir
       THEN Raise(r) /\ UNCHANGED chunksDir
       ELSE /\ chunksDir' = TRUE
            /\ vtt' = [vtt EXCEPT ![r].pc = "video_to_audio"]
    /\ UNCHANGED <<chunkFiles, audioFile, jobVars>>

\* lines 10-12 and 56-57: the audio track, total_duration_ms long, is written
\* to audio_path
video_to_audio(r, total_duration_ms) ==
    /\ vtt[r].pc = "video_to_audio"
    /\ audioFile' = [audioFile EXCEPT ![r] = Some(total_duration_ms)]
    /\ vtt' = [vtt EXCEPT ![r].pc = "split"]
    /\ UNCHANGED <<chunksDir, chunkFiles, jobVars>>

\* lines 10-12: moviepy cannot read the media file
video_to_audio_raise(r) ==
    /\ vtt[r].pc = "video_to_audio"
    /\ Raise(r)
    /\ UNCHANGED <<chunksDir, chunkFiles, audioFile, jobVars>>

\* split_audio_by_duration, lines 17-23: the audio is loaded and measured
split_audio_by_duration(r) ==
    /\ vtt[r].pc = "split"
    /\ IF audioFile[r] = None
       THEN Raise(r)
       ELSE vtt' = [vtt EXCEPT
                ![r].total_duration_ms = audioFile[r][1],
                ![r].chunks = <<>>,
                ![r].pc = IF NumChunks(audioFile[r][1], vtt[r].chunk_duration_ms) = 0
                          THEN "recognize" ELSE "export"]
    /\ UNCHANGED <<chunksDir, chunkFiles, audioFile, jobVars>>

\* split_audio_by_duration, lines 26-35: one turn of the loop exports chunk i
\* to assets/chunks/chunk_<i>.wav; after the last turn the names are returned
split_export(r) ==
    /\ vtt[r].pc = "export"
    /\ LET i == Len(vtt[r].chunks)
           start == i * vtt[r].chunk_duration_ms
           end == start + vtt[r].chunk_duration_ms
           chunk == Slice(vtt[r].total_duration_ms, start, end)
           chunks == Append(vtt[r].chunks, i)
           last_turn == Len(chunks) = NumChunks(vtt[r].total_duration_ms,
                                                vtt[r].chunk_duration_ms)
       IN IF ~chunksDir
          THEN Raise(r) /\ UNCHANGED chunkFiles
          ELSE /\ chunkFiles' = [n \in DOMAIN chunkFiles \cup {i} |->
                                   IF n = i THEN [run |-> r, start |-> chunk.start,
                                                  end |-> chunk.end]
                                   ELSE chunkFiles[n]]
               /\ vtt' = [vtt EXCEPT
                            ![r].chunks = chunks,
                            ![r].chunk_texts = IF last_turn
                                               THEN [k \in 1..Len(chunks) |-> None]
                                               ELSE <<>>,
                            ![r].pc = IF last_turn THEN "recognize" ELSE "export"]
    /\ UNCHANGED <<chunksDir, audioFile, jobVars>>

\* the strings of lines 47 and 49
Placeholder == <<"[Unintelligible audio]">>
ApiErrorPrefix == <<"Google API error: ">>

\* faulty variant: no except clauses, the text of the outcome is returned as it is
AudioToTextResultNoExcept(outcome) == outcome.text

\* audio_to_text, lines 39-49: what the call returns for the outcome of
\* recognize_google
AudioToTextResult(outcome) ==
    IF outcome.kind = "text" THEN outcome.text
    ELSE IF outcome.kind = "UnknownValueError" THEN Placeholder
    ELSE IF outcome.kind = "RequestError" THEN ApiErrorPrefix \o outcome.text
    ELSE <<>>

\* faulty variant: every call recognizes the audio its own run has cut, whatever
\* the chunk file holds by now
audio_to_text_own_audio(r, k, outcome) ==
    /\ vtt[r].pc = "recognize"
    /\ k \in 1..Len(vtt[r].chunks)
    /\ vtt[r].chunk_texts[k] = None
    /\ LET start == vtt[r].chunks[k] * vtt[r].chunk_duration_ms
           chunk == Slice(vtt[r].total_duration_ms, start, start + vtt[r].chunk_duration_ms)
       IN vtt' = [vtt EXCEPT
             ![r].chunk_texts[k] =
                 Some([chunk |-> vtt[r].chunks[k],
                       raised |-> outcome.kind = "OtherError",
                       outcome |-> outcome.kind,
                       audio |-> Some([run |-> r, start |-> chunk.start, end |-> chunk.end]),
                       text |-> AudioToTextResult(outcome)])]
    /\ UNCHANGED <<chunksDir, chunkFiles, audioFile, jobVars>>

\* faulty variant: the results are collected in the order in which the calls finish
audio_to_text_as_completed(r, k, outcome) ==
    /\ vtt[r].pc = "recognize"
    /\ k \in 1..Len(vtt[r].chunks)
    /\ \A e \in 1..Len(vtt[r].chunk_texts) :
          vtt[r].chunk_texts[e] # None => vtt[r].chunk_texts[e][1].chunk # vtt[r].chunks[k]
    /\ LET free == {e \in 1..Len(vtt[r].chunk_texts) : vtt[r].chunk_texts[e] = None}
           slot == CHOOSE e \in free : \A f \in free : e <= f
       IN /\ free # {}
          /\ vtt' = [vtt EXCEPT
                ![r].chunk_texts[slot] =
                    Some([chunk |-> vtt[r].chunks[k],
                          raised |-> outcome.kind = "OtherError",
                          outcome |-> outcome.kind,
                          audio |-> IF vtt[r].chunks[k] \in DOMAIN chunkFiles
                                    THEN Some(chunkFiles[vtt[r].chunks[k]]) ELSE None,
                          text |-> AudioToTextResult(outcome)])]
    /\ UNCHANGED <<chunksDir, chunkFiles, audioFile, jobVars>>

\* video_to_text, lines 64-65: executor.map runs audio_to_text on every chunk
\* in parallel; the call for the k-th chunk ends, in any order, and its result
\* is the k-th of chunk_texts. The call reads what the chunk file holds at
\* that moment (audio); a chunk file that is gone makes the call raise, and so
\* does an exception of recognize_google that is not caught. The outcome of
\* recognize_google is kept with the result.
audio_to_text(r, k, outcome) ==
    /\ vtt[r].pc = "recognize"
    /\ k \in 1..Len(vtt[r].chunks)
    /\ vtt[r].chunk_texts[k] = None
    /\ vtt' = [vtt EXCEPT
          ![r].chunk_texts[k] =
              IF vtt[r].chunks[k] \in DOMAIN chunkFiles
              THEN Some([chunk |-> vtt[r].chunks[k],
                         raised |-> outcome.kind = "OtherError",
                         outcome |-> outcome.kind,
                         audio |-> Some(chunkFiles[vtt[r].chunks[k]]),
                         text |-> AudioToTextResult(outcome)])
              ELSE Some([chunk |-> vtt[r].chunks[k], raised |-> TRUE,
                         outcome |-> "FileNotFoundError", audio |-> None,
                         text |-> <<>>])]
    /\ UNCHANGED <<chunksDir, chunkFiles, audioFile, jobVars>>

\* lines 65-69: all calls have ended; the first exception, if any, is raised;
\* else the texts are joined with spaces and assets/chunks is listed
video_to_text_join(r) ==
    /\ vtt[r].pc = "recognize"
    /\ \A k \in 1..Len(vtt[r].chunk_texts) : vtt[r].chunk_texts[k] # None
    /\ IF \E k \in 1..Len(vtt[r].chunk_texts) : vtt[r].chunk_texts[k][1].raised
       THEN Raise(r)
       ELSE vtt' = [vtt EXCEPT
                ![r].pc = "cleanup",
                ![r].result =
                    Some(Join(<<" ">>, [k \in 1..Len(vtt[r].chunk_texts) |->
                                          vtt[r].chunk_texts[k][1].text])),
                ![r].listing = DOMAIN chunkFiles]
    /\ UNCHANGED <<chunksDir, chunkFiles, audioFile, jobVars>>

\* lines 69-70: one listed file is removed; a file that is no longer there
\* makes os.remove raise
video_to_text_remove(r, i) ==
    /\ vtt[r].pc = "cleanup"
    /\ i \in vtt[r].listing
    /\ IF i \in DOMAIN chunkFiles
       THEN /\ chunkFiles' = [n \in DOMAIN chunkFiles \ {i} |-> chunkFiles[n]]
            /\ vtt' = [vtt EXCEPT ![r].listing = @ \ {i}]
       ELSE Raise(r) /\ UNCHANGED chunkFiles
    /\ UNCHANGED <<chunksDir, audioFile, jobVars>>

\* lines 71-73: the audio file is removed and the trimmed text returned
video_to_text_strip(r) ==
    /\ vtt[r].pc = "cleanup"
    /\ vtt[r].listing = {}
    /\ IF audioFile[r] = None
       THEN Raise(r) /\ UNCHANGED audioFile
       ELSE /\ audioFile' = [audioFile EXCEPT ![r] = None]
            /\ vtt' = [vtt EXCEPT ![r].pc = "returned",
                                  ![r].result = Some(Strip(vtt[r].result[1]))]
    /\ UNCHANGED <<chunksDir, chunkFiles, jobVars>>

\* ------------------------------------------------------------ specification
Next ==
    \/ \E name \in Names : nextId <= MaxJobs /\ submit_media(name)
    \/ \E j \in Jobs, e \in DownloadErrors : download_media_raise(j, e)
    \/ \E j \in Jobs, suffix \in UrlSuffixes, ctype \in ContentTypes :
          download_media_open(j, suffix, ctype)
    \/ \E j \in Jobs : download_media_return(j)
    \/ \E j \in Jobs : process_transcription(j)
    \/ \E j \in Jobs : video_to_text_audio(j)
    \/ \E j \in Jobs, text \in Transcripts : video_to_text_return(j, text)
    \/ \E j \in Jobs, e \in PipelineErrors : video_to_text_raise(j, e)
    \/ \E j \in Jobs : process_transcription_open(j)
    \/ \E j \in Jobs : process_transcription_write(j)
    \/ \E j \in Jobs : process_transcription_completed(j)
    \/ \E j \in Jobs : get_media_status(j)
    \/ \E j \in Jobs : get_transcript_text(j)
    \/ \E j \in Jobs : get_transcript_json(j)
    \/ get_transcript_text_read
    \/ get_transcript_json_read
    \/ \E j \in Jobs : delete_media(j)

Spec == Init /\ [][Next]_vars

\* The read endpoints alone, started on any storage directory the service can
\* find when it starts (STORAGE_DIR.mkdir(exist_ok=True) keeps what is there):
\* every status with its fields, with and without transcript.txt.
StoredRecords(j) ==
    { [id |-> j, status |-> "processing", name |-> n, created_at |-> utcnow(j, "submit_media"),
       completed_at |-> None, error |-> None] : n \in Names }
    \cup
    { [id |-> j, status |-> "completed", name |-> n, created_at |-> utcnow(j, "submit_media"),
       completed_at |-> Some(utcnow(j, "process_transcription")), error |-> None] : n \in Names }
    \cup
    { [id |-> j, status |-> "failed", name |-> n, created_at |-> utcnow(j, "submit_media"),
       completed_at |-> Some(utcnow(j, "process_transcription_except")),
       error |-> Some(<<e, "\n", "Traceback">>)] : n \in Names, e \in PipelineErrors }
    \cup
    { [id |-> j, status |-> "failed", name |-> n, created_at |-> utcnow(j, "submit_media"),
       completed_at |-> Some(utcnow(j, "submit_media_except")),
       error |-> Some(<<"Download failed: ", e>>)] : n \in Names, e \in DownloadErrors }

InitStored ==
    /\ nextId = MaxJobs + 1
    /\ statusFile \in [Jobs -> {None} \cup UNION {{Some(r) : r \in StoredRecords(j)} : j \in Jobs}]
    /\ \A j \in Jobs : statusFile[j] # None => statusFile[j][1].id = j
    /\ transcriptFile \in [Jobs -> {None, Some("")} \cup {Some(t) : t \in Transcripts}]
    /\ dirExists = [j \in Jobs |-> statusFile[j] # None \/ transcriptFile[j] # None]
    /\ mediaFiles = [j \in Jobs |-> {}]
    /\ sub = [j \in Jobs |-> NoSub]
    /\ task = [j \in Jobs |-> NoTask]
    /\ req = NoReq
    /\ last = None
    /\ deleted = [j \in Jobs |-> FALSE]
    /\ InitPipeline

NextReads ==
    \/ \E j \in Jobs : get_media_status(j)
    \/ \E j \in Jobs : get_transcript_text(j)
    \/ \E j \in Jobs : get_transcript_json(j)
    \/ get_transcript_text_read
    \/ get_transcript_json_read

SpecReads == InitStored /\ [][NextReads]_vars

\* ================================================================== claims
Terminal == {"completed", "failed"}
HasRecord(j) == statusFile[j] # None
Status(j) == statusFile[j][1].status

\* C1: the stored status of a job starts as processing and a write changes it
\* only from processing to completed or from processing to failed; a completed
\* or failed status is never changed by a later write.
C1_StatusTransitions ==
    [][\A j \in Jobs :
         /\ (~HasRecord(j) /\ statusFile'[j] # None)
                => statusFile'[j][1].status = "processing"
         /\ (HasRecord(j) /\ statusFile'[j] # None)
                => \/ statusFile'[j][1].status = Status(j)
                   \/ /\ Status(j) = "processing"
                      /\ statusFile'[j][1].status \in Terminal]_vars

C1_Witness ==
    \E j \in Jobs : HasRecord(j) /\ Status(j) = "completed" /\ task[j].pc = "done"

\* C2: in every stored record completed_at is set exactly when the status is
\* completed or failed, and error is set exactly when the status is failed.
C2_FieldsMatchStatus ==
    \A j \in Jobs : HasRecord(j) =>
        /\ (statusFile[j][1].completed_at # None) <=> (Status(j) \in Terminal)
        /\ (statusFile[j][1].error # None) <=> (Status(j) = "failed")

C2_Witness ==
    \E j \in Jobs : /\ HasRecord(j) /\ Status(j) = "failed"
                    /\ task[j].pc = "failed"
                    /\ statusFile[j][1].error # None
                    /\ statusFile[j][1].completed_at # None

C4_DeletedStaysDeleted ==
    \A j \in Jobs : deleted[j] =>
        /\ ~dirExists[j]
        /\ statusFile[j] = None
        /\ transcriptFile[j] = None
        /\ mediaFiles[j] = {}
        /\ (last # None /\ last[1].id = j /\ last[1].after_delete) => last[1].code = 404

C4_Witness ==
    \E j \in Jobs : /\ deleted[j]
                    /\ task[j].pc = "crashed"
                    /\ last # None
                    /\ last[1].id = j /\ last[1].after_delete
                    /\ last[1].op \in {"status", "text", "json", "delete"}
                    /\ last[1].code = 404

\* C5: a transcript request (text or JSON) that reads status processing answers
\* 409 and returns no transcript content, also when transcript.txt is already
\* there and status completed is not yet written.
C5_ProcessingAnswersConflict ==
    (last # None /\ last[1].op \in {"text", "json"} /\ last[1].read = "processing")
        => /\ last[1].code = 409
           /\ last[1].body = <<"Transcription still in progress">>

C5_Witness ==
    /\ last # None
    /\ last[1].op \in {"text", "json"}
    /\ last[1].read = "processing"
    /\ last[1].had_transcript
    /\ last[1].code = 409

\* the step in which the download of job j fails with a response other than 200
\* or a transport error and submit_media ends
DownloadFails(j) ==
    /\ sub[j].pc = "download"
    /\ sub'[j].pc = "returned"
    /\ sub'[j].status_data[1].error[1][2] \in DownloadErrors

FailedDownloadRecord(r) ==
    /\ r # None
    /\ r[1].status = "failed"
    /\ r[1].error # None
    /\ r[1].error[1][1] = "Download failed: "
    /\ r[1].completed_at # None

\* C6 as stated: when the download fails, submit_media answers 400 and the
\* job's record is in storage with status failed, an error that begins with the
\* download-failure message and a completed_at.
C6_FailedDownloadLeavesRecord ==
    [][\A j \in Jobs : DownloadFails(j) =>
          /\ sub'[j].response[1].code = 400
          /\ FailedDownloadRecord(statusFile'[j])]_vars

\* C6 amended: when the download fails and the job's directory still exists
\* (no delete_media of the job succeeded during the download), submit_media
\* answers 400 and the record is in storage, same id, name and created_at,
\* with status failed, an error that begins with the download-failure message
\* and a completed_at; when the job was deleted during the download the call
\* ends with an unhandled error (500) and no record is written.
C6_FailedDownloadLeavesRecordUnlessDeleted ==
    [][\A j \in Jobs : DownloadFails(j) =>
          IF dirExists[j]
          THEN /\ sub'[j].response[1].code = 400
               /\ FailedDownloadRecord(statusFile'[j])
               /\ statusFile'[j][1].id = statusFile[j][1].id
               /\ statusFile'[j][1].name = statusFile[j][1].name
               /\ statusFile'[j][1].created_at = statusFile[j][1].created_at
          ELSE /\ sub'[j].response[1].code = 500
               /\ statusFile'[j] = None]_vars

C6_Witness ==
    \E j \in Jobs : /\ sub[j].pc = "returned"
                    /\ sub[j].response[1].code = 400
                    /\ FailedDownloadRecord(statusFile[j])
                    /\ statusFile[j][1].error[1][2] \in DownloadErrors

\* C7: the outcome of both transcript endpoints is decided by the stored state
\* of the job alone: 404 without a record, 409 while processing, 500 with the
\* stored error when failed, 404 when completed without transcript.txt, and
\* otherwise 200 with the whole content of transcript.txt.
C7_TranscriptOutcome ==
    (last # None /\ last[1].op \in {"text", "json"}) =>
        LET j == last[1].id
            code == last[1].code
            body == last[1].body
        IN IF ~HasRecord(j) THEN code = 404
           ELSE IF Status(j) = "processing" THEN code = 409
           ELSE IF Status(j) = "failed"
                THEN code = 500 /\ Len(body) = 2 /\ body[2] = statusFile[j][1].error
           ELSE IF transcriptFile[j] = None THEN code = 404
           ELSE /\ code = 200
                /\ IF last[1].op = "text"
                   THEN body = <<transcriptFile[j][1]>>
                   ELSE body[1].transcript = transcriptFile[j][1]

C7_Witness ==
    /\ last # None
    /\ last[1].op = "json"
    /\ last[1].code = 404
    /\ HasRecord(last[1].id)
    /\ Status(last[1].id) = "completed"
    /\ transcriptFile[last[1].id] = None

\* The same system when the download and the pipeline each end and the serving
\* process keeps running: every step of a submit_media call and of a background
\* task that can be taken is eventually taken. Client requests (reads, deletes,
\* new submissions) stay free.
JobStep(j) ==
    \/ \E e \in DownloadErrors : download_media_raise(j, e)
    \/ \E suffix \in UrlSuffixes, ctype \in ContentTypes : download_media_open(j, suffix, ctype)
    \/ download_media_return(j)
    \/ process_transcription(j)
    \/ video_to_text_audio(j)
    \/ \E text \in Transcripts : video_to_text_return(j, text)
    \/ \E e \in PipelineErrors : video_to_text_raise(j, e)
    \/ process_transcription_open(j)
    \/ process_transcription_write(j)
    \/ process_transcription_completed(j)

\* The steps that change the storage or a job's position: the read endpoints
\* change only req and last, so they are left out here.
NextLive ==
    \/ \E name \in Names : nextId <= MaxJobs /\ submit_media(name)
    \/ \E j \in Jobs : JobStep(j)
    \/ \E j \in Jobs : delete_media(j)

LiveSpec == Init /\ [][NextLive]_vars /\ \A j \in Jobs : WF_vars(JobStep(j))

\* Every id of Jobs is handed out: jobs side by side, each with its submit
\* call, its background task, status and transcript.txt requests and its
\* deletion, on one input of each kind.
NextJobs ==
    \/ submit_media(None)
    \/ \E j \in Jobs : download_media_raise(j, "ClientConnectorError")
    \/ \E j \in Jobs : download_media_open(j, ".wav", "")
    \/ \E j \in Jobs : download_media_return(j)
    \/ \E j \in Jobs : process_transcription(j)
    \/ \E j \in Jobs : video_to_text_audio(j)
    \/ \E j \in Jobs, text \in Transcripts : video_to_text_return(j, text)
    \/ \E j \in Jobs, e \in PipelineErrors : video_to_text_raise(j, e)
    \/ \E j \in Jobs : process_transcription_open(j)
    \/ \E j \in Jobs : process_transcription_write(j)
    \/ \E j \in Jobs : process_transcription_completed(j)
    \/ \E j \in Jobs : get_media_status(j)
    \/ \E j \in Jobs : get_transcript_text(j)
    \/ get_transcript_text_read
    \/ \E j \in Jobs : delete_media(j)

SpecJobs == Init /\ [][NextJobs]_vars

\* C8: with the download and the pipeline each ending and the process kept
\* running, every submitted job that is not deleted eventually has the stored
\* status completed or failed.
C8_EventuallyTerminal ==
    \A j \in Jobs :
        (HasRecord(j) /\ Status(j) = "processing")
            ~> (~HasRecord(j) \/ Status(j) \in Terminal)

C8_Witness ==
    \E j \in Jobs : /\ HasRecord(j) /\ Status(j) \in Terminal
                    /\ task[j].pc \in {"done", "failed"}
                    /\ sub[j].response[1].code = 200

\* no call of video_to_text is between its start and its end
NoneRunning == \A q \in Runs : vtt[q].pc \in {"idle", "returned", "raised"}

\* The pipeline alone, one call after the other (one job transcribed at a
\* time), each on audio of one of AudioDurations.
NextPipeline ==
    \/ \E r \in Runs : NoneRunning /\ video_to_text(r)
    \/ \E r \in Runs : video_to_text_mkdir(r)
    \/ \E r \in Runs, d \in AudioDurations : video_to_audio(r, d)
    \/ \E r \in Runs : video_to_audio_raise(r)
    \/ \E r \in Runs : split_audio_by_duration(r)
    \/ \E r \in Runs : split_export(r)
    \/ \E r \in Runs, k \in 1..(MaxChunks + 1), o \in RecognitionOutcomes :
          audio_to_text(r, k, o)
    \/ \E r \in Runs : video_to_text_join(r)
    \/ \E r \in Runs, i \in 0..MaxChunks : video_to_text_remove(r, i)
    \/ \E r \in Runs : video_to_text_strip(r)

SpecPipeline == Init /\ [][NextPipeline]_vars

\* The pipeline alone, the calls at the same time (jobs with different ids in
\* the thread pool), sharing assets/chunks.
NextConcurrent ==
    \/ \E r \in Runs : video_to_text(r)
    \/ \E r \in Runs : video_to_text_mkdir(r)
    \/ \E r \in Runs, d \in ConcurrentDurations : video_to_audio(r, d)
    \/ \E r \in Runs : video_to_audio_raise(r)
    \/ \E r \in Runs : split_audio_by_duration(r)
    \/ \E r \in Runs : split_export(r)
    \/ \E r \in Runs, k \in 1..(MaxChunks + 1), o \in ConcurrentOutcomes :
          audio_to_text(r, k, o)
    \/ \E r \in Runs : video_to_text_join(r)
    \/ \E r \in Runs, i \in 0..MaxChunks : video_to_text_remove(r, i)
    \/ \E r \in Runs : video_to_text_strip(r)

SpecConcurrent == Init /\ [][NextConcurrent]_vars

\* split_audio_by_duration alone, on audio of every duration up to MaxDuration
\* and every chunk duration up to MaxChunkMs, and on 65 s of audio with the
\* chunk duration of 30 s.
InitSplit ==
    /\ nextId = 1
    /\ dirExists = [j \in Jobs |-> FALSE]
    /\ statusFile = [j \in Jobs |-> None]
    /\ mediaFiles = [j \in Jobs |-> {}]
    /\ transcriptFile = [j \in Jobs |-> None]
    /\ sub = [j \in Jobs |-> NoSub]
    /\ task = [j \in Jobs |-> NoTask]
    /\ req = NoReq
    /\ last = None
    /\ deleted = [j \in Jobs |-> FALSE]
    /\ chunksDir = TRUE
    /\ chunkFiles = <<>>
    /\ \E d \in (0..MaxDuration) \cup {65000}, c \in (1..MaxChunkMs) \cup {DefaultChunkMs} :
          /\ (d = 65000) <=> (c = DefaultChunkMs)
          /\ audioFile = [r \in Runs |-> IF r = 1 THEN Some(d) ELSE None]
          /\ vtt = [r \in Runs |-> IF r = 1
                                   THEN [NoRun EXCEPT !.pc = "split",
                                                      !.chunk_duration_ms = c]
                                   ELSE NoRun]

NextSplit ==
    \/ \E r \in Runs : split_audio_by_duration(r)
    \/ \E r \in Runs : split_export(r)

SpecSplit == InitSplit /\ [][NextSplit]_vars

RECURSIVE JoinedUpTo(_, _)
\* the first n of texts, in order, one space between neighbours
JoinedUpTo(texts, n) ==
    IF n = 0 THEN <<>>
    ELSE IF n = 1 THEN texts[1]
    ELSE JoinedUpTo(texts, n - 1) \o <<" ">> \o texts[n]

\* t is s without the whitespace at its two ends
IsTrimOf(t, s) ==
    /\ t = <<>> \/ (t[1] \notin Whitespace /\ t[Len(t)] \notin Whitespace)
    /\ \E a \in 0..Len(s) :
          /\ a + Len(t) <= Len(s)
          /\ \A k \in 1..Len(t) : s[a + k] = t[k]
          /\ \A k \in 1..Len(s) : (k <= a \/ k > a + Len(t)) => s[k] \in Whitespace

\* C9: the text video_to_text returns is the results of the per-chunk
\* recognitions, in the order of the chunk indices and one space between them,
\* without the whitespace at its ends, in whatever order the recognitions ended.
C9_JoinedInChunkOrder ==
    \A r \in Runs : vtt[r].pc = "returned" =>
        LET n == Len(vtt[r].chunks)
            texts == vtt[r].chunk_texts
        IN /\ Len(texts) = n
           /\ \A k \in 1..n : vtt[r].chunks[k] = k - 1 /\ texts[k][1].chunk = k - 1
           /\ vtt[r].result # None
           /\ IsTrimOf(vtt[r].result[1], JoinedUpTo([k \in 1..n |-> texts[k][1].text], n))

C9_Witness ==
    \E r \in Runs :
        /\ vtt[r].pc = "returned"
        /\ Len(vtt[r].chunks) = 2
        /\ vtt[r].chunk_texts[1][1].text = <<" ", "b", " ">>
        /\ vtt[r].chunk_texts[2][1].text = <<"[Unintelligible audio]">>
        /\ vtt[r].result = Some(<<"b", " ", " ", "[Unintelligible audio]">>)

\* C10: for audio of D ms and chunks of C ms split_audio_by_duration makes
\* ceil(D/C) chunks, chunk i being [i*C, min((i+1)*C, D)): they follow one
\* another without gap or overlap from 0 to D, none is empty and only the last
\* may be shorter than C; 65000 ms in chunks of 30000 ms gives 30 s, 30 s, 5 s.
C10_ChunksCoverAudio ==
    \A r \in Runs : vtt[r].pc = "recognize" =>
        LET D == vtt[r].total_duration_ms
            C == vtt[r].chunk_duration_ms
            n == Len(vtt[r].chunks)
            chunk(i) == chunkFiles[vtt[r].chunks[i + 1]]
        IN /\ (n - 1) * C < D /\ D <= n * C
           /\ \A i \in 0..(n - 1) :
                 /\ vtt[r].chunks[i + 1] = i
                 /\ chunk(i).start = i * C
                 /\ chunk(i).end = Min((i + 1) * C, D)
                 /\ chunk(i).start < chunk(i).end
                 /\ i < n - 1 => /\ chunk(i).end - chunk(i).start = C
                                 /\ chunk(i + 1).start = chunk(i).end
           /\ n > 0 => chunk(0).start = 0 /\ chunk(n - 1).end = D
           /\ (D = 65000 /\ C = 30000) =>
                 [i \in 1..n |-> chunk(i - 1).end - chunk(i - 1).start]
                     = <<30000, 30000, 5000>>

C10_Witness ==
    \E r \in Runs :
        /\ vtt[r].pc = "recognize"
        /\ vtt[r].total_duration_ms = 65000
        /\ vtt[r].chunk_duration_ms = 30000
        /\ Len(vtt[r].chunks) = 3
        /\ chunkFiles[2] = [run |-> r, start |-> 60000, end |-> 65000]

\* t begins with p
StartsWith(t, p) == Len(p) <= Len(t) /\ SubSeq(t, 1, Len(p)) = p

\* C11: a chunk whose recognition raised UnknownValueError contributes the
\* fixed placeholder and one whose recognition raised RequestError the error
\* string; neither makes the pipeline raise: a run leaves the recognition step
\* by an exception only when a chunk file was missing, and the joined text has
\* one entry for each chunk of the split.
C11_PlaceholderForFailedChunk ==
    \A r \in Runs :
        /\ \A k \in 1..Len(vtt[r].chunk_texts) :
              LET res == vtt[r].chunk_texts[k]
              IN res # None =>
                   /\ res[1].raised <=>
                         res[1].outcome \in {"FileNotFoundError", "OtherError"}
                   /\ res[1].outcome = "UnknownValueError" => res[1].text = Placeholder
                   /\ res[1].outcome = "RequestError" =>
                         StartsWith(res[1].text, ApiErrorPrefix)
        /\ vtt[r].pc = "cleanup" =>
              /\ Len(vtt[r].chunk_texts) =
                    NumChunks(vtt[r].total_duration_ms, vtt[r].chunk_duration_ms)
              /\ \A k \in 1..Len(vtt[r].chunk_texts) :
                    vtt[r].chunk_texts[k] # None /\ ~vtt[r].chunk_texts[k][1].raised
              /\ vtt[r].result =
                    Some(Join(<<" ">>, [k \in 1..Len(vtt[r].chunk_texts) |->
                                          vtt[r].chunk_texts[k][1].text]))

C11_Witness ==
    \E r \in Runs :
        /\ vtt[r].pc = "returned"
        /\ Len(vtt[r].chunks) = 2
        /\ vtt[r].chunk_texts[1][1].outcome = "UnknownValueError"
        /\ vtt[r].chunk_texts[2][1].outcome = "RequestError"
        /\ vtt[r].result = Some(Placeholder \o <<" ">> \o ApiErrorPrefix \o <<"e">>)

\* the scratch files call r has created and that are still there
ScratchOf(r) ==
    [audio |-> audioFile[r] # None,
     chunks |-> {i \in DOMAIN chunkFiles : chunkFiles[i].run = r}]

\* C12: after every call of video_to_text, whether it returned or raised, the
\* audio file it extracted and the chunk files it wrote have been removed.
C12_ScratchRemovedAfterRun ==
    \A r \in Runs : vtt[r].pc \in {"returned", "raised"} =>
        ScratchOf(r) = [audio |-> FALSE, chunks |-> {}]

\* the download of job j has succeeded: its media file was written
Downloaded(j) ==
    /\ sub[j].pc = "returned"
    /\ sub[j].response # None
    /\ sub[j].response[1].code = 200

\* C13: once the media file of a job has been downloaded it stays in the job's
\* directory until delete_media removes the job, whatever its extension; the
\* transcription pipeline does not remove it.
C13_MediaFileStays ==
    \A j \in Jobs : (Downloaded(j) /\ ~deleted[j]) => sub[j].ext \in mediaFiles[j]

\* a step of a read endpoint: a transcript request moves, or a status or
\* transcript request leaves its response
ReadStep ==
    \/ req' # req
    \/ last' # last /\ last'[1].op \in {"status", "text", "json"}

\* the transcript.json payload of the stored state of job j
JsonPayload(j) ==
    <<[id |-> j, status |-> statusFile[j][1].status,
       transcript |-> transcriptFile[j][1],
       created_at |-> statusFile[j][1].created_at,
       completed_at |-> statusFile[j][1].completed_at]>>

\* C14: the read endpoints leave every job's record and artifacts unchanged;
\* the record and the transcript of a completed job change only when the job
\* is deleted; every successful transcript.json response is the payload of
\* the stored state, so two such responses for the same job with no delete in
\* between are identical.
C14_ReadsAreIdempotent ==
    [][/\ ReadStep => UNCHANGED storage
       /\ \A j \in Jobs :
             (HasRecord(j) /\ Status(j) = "completed") =>
                 \/ statusFile'[j] = statusFile[j] /\ transcriptFile'[j] = transcriptFile[j]
                 \/ deleted'[j] /\ ~HasRecord(j)'
       /\ (last' # last /\ last'[1].op = "json" /\ last'[1].code = 200) =>
             /\ \E j \in Jobs : j = last'[1].id /\ last'[1].body = JsonPayload(j)'
             /\ (last # None /\ last[1].op = "json" /\ last[1].code = 200
                    /\ last[1].id = last'[1].id)
                 => last'[1].body = last[1].body
      ]_vars

\* a transcript.json request has answered 200 and the next one for the same
\* job is under way
C14_Witness ==
    /\ last # None
    /\ last[1].op = "json"
    /\ last[1].code = 200
    /\ req.pc = "open"
    /\ req.op = "json"
    /\ req.id = last[1].id
    /\ HasRecord(req.id)

\* C15: a status or transcript request, also one that overlaps a delete_media
\* of the same id, ends with one of its defined outcomes (the response for the
\* job as it was before the deletion, or 404 "Media ID not found"), never with
\* an unhandled error.
C15_ReadersSeeDeleteAtomically ==
    (last # None /\ last[1].op \in {"status", "text", "json"}) =>
        Resp(last[1].code, last[1].body) # Unhandled

\* what the directory of job j holds
FilesOf(j) == <<dirExists[j], statusFile[j], mediaFiles[j], transcriptFile[j]>>

\* the step belongs to an operation on job j: its submit call or background
\* task moves, it is deleted, or a read request for it moves or answers
OperatedOn(j) ==
    \/ sub'[j] # sub[j]
    \/ task'[j] # task[j]
    \/ deleted'[j] # deleted[j]
    \/ req' # req /\ j \in {req.id, req'.id}
    \/ last' # last /\ last'[1].id = j

\* C16: a step of any operation on a job A (submit, download, background
\* transcription, reads, delete) leaves the directory of every other job B as
\* it is: record, media file and transcript file.
C16_OtherJobsUntouched ==
    [][\A a \in Jobs, b \in Jobs :
          (a # b /\ OperatedOn(a)) => FilesOf(b)' = FilesOf(b)]_vars

\* job 2 was submitted, transcribed and deleted next to job 1, whose
\* record, media file and transcript are there
C16_Witness ==
    /\ deleted[2]
    /\ task[2].pc \in {"done", "failed", "crashed"}
    /\ HasRecord(1)
    /\ Status(1) = "completed"
    /\ transcriptFile[1] \in {Some(t) : t \in Transcripts}
    /\ dirExists[1]

\* C17: two calls of video_to_text that run at the same time share
\* assets/chunks: the recognition of a chunk takes what chunk_<i>.wav holds at
\* that moment, also when the other call has written over it, and fails when
\* the file has been removed; so a call can return a text built from audio of
\* the other job, or raise.
C17_RecognitionReadsSharedScratch ==
    [][\A r \in Runs : \A k \in 1..Len(vtt[r].chunk_texts) :
          (vtt[r].pc = "recognize" /\ vtt[r].chunk_texts[k] = None
             /\ vtt'[r].chunk_texts[k] # None) =>
              LET i == vtt[r].chunks[k]
                  res == vtt'[r].chunk_texts[k][1]
              IN IF i \in DOMAIN chunkFiles
                 THEN /\ res.audio = Some(chunkFiles[i])
                      /\ res.raised <=> res.outcome = "OtherError"
                 ELSE res.audio = None /\ res.raised]_vars

\* call 1 has returned a text recognized from a chunk file that call 2 wrote
\* over, and call 2 has raised because call 1 removed that file
C17_Witness ==
    /\ vtt[1].pc = "returned"
    /\ \E k \in 1..Len(vtt[1].chunk_texts) :
          /\ vtt[1].chunk_texts[k][1].audio # None
          /\ vtt[1].chunk_texts[k][1].audio[1].run = 2
    /\ vtt[2].pc = "raised"
    /\ \E k \in 1..Len(vtt[2].chunk_texts) :
          /\ vtt[2].chunk_texts[k] # None
          /\ vtt[2].chunk_texts[k][1].outcome = "FileNotFoundError"

\* C18: whenever the stored status of a job is completed (the job is not
\* deleted: its record is there), its transcript.txt exists and holds the text
\* the pipeline returned: the task writes the file before it writes completed.
C18_CompletedHasTranscript ==
    \A j \in Jobs : (HasRecord(j) /\ Status(j) = "completed") =>
        /\ ~deleted[j]
        /\ transcriptFile[j] # None
        /\ transcriptFile[j] = task[j].transcript

C18_Witness ==
    \E j \in Jobs : /\ HasRecord(j)
                    /\ Status(j) = "completed"
                    /\ task[j].pc = "done"
                    /\ transcriptFile[j] \in {Some(t) : t \in Transcripts}
                    /\ last # None /\ last[1].op = "text" /\ last[1].code = 200

C20_RecordFieldsImmutable ==
    [][\A j \in Jobs : (HasRecord(j) /\ HasRecord(j)') =>
          LET old == statusFile[j][1]
              new == statusFile'[j][1]
          IN /\ new.id = old.id /\ new.id = j
             /\ new.name = old.name
             /\ new.created_at = old.created_at
             /\ new.created_at = utcnow(j, "submit_media")
             /\ old.completed_at # None => new.completed_at = old.completed_at
             /\ old.error # None => new.error = old.error
      ]_vars

C20_Witness ==
    \E j \in Jobs : /\ HasRecord(j)
                    /\ Status(j) = "failed"
                    /\ task[j].pc = "failed"
                    /\ statusFile[j][1].name = Some("talk")
                    /\ statusFile[j][1].created_at = utcnow(j, "submit_media")
                    /\ statusFile[j][1].completed_at # None
                    /\ statusFile[j][1].error # None
====
